---- MODULE Spec2Model ----
(***************************************************************************)
(* Model of src/http_server.py: a single-threaded HTTPS static file server *)
(* built from http.server.HTTPServer, http.server.SimpleHTTPRequestHandler *)
(* and an ssl.SSLContext.  The script's statements are the startup         *)
(* actions; the behaviour of the library objects the script constructs and *)
(* runs (the accept loop, the TLS accept, the request handler) is modelled *)
(* as CPython 3.11 implements it.                                          *)
(*                                                                         *)
(* A path string is modelled as the sequence Python's path.split('/')      *)
(* returns for it: "/etc/" is <<"", "etc", "">>, "" is <<"">>.             *)
(***************************************************************************)
EXTENDS Naturals, Sequences, FiniteSets

VARIABLES env, pc, exitStatus, stderr, stdout, port, sockKind, ctxLoaded,
          bindCalls, backlog, conn, handling, xchg

vars == <<env, pc, exitStatus, stderr, stdout, port, sockKind, ctxLoaded,
          bindCalls, backlog, conn, handling, xchg>>

----------------------------------------------------------------------------
(* Bounds of the model *)

\* number of client connections that ever arrive
MaxConns == 2
\* number of components of a request path (the length of path.split('/'))
MaxPathLen == 4

----------------------------------------------------------------------------
(* Configuration constants of the script *)

IP_ADDRESS == "YOURADRESS"
PORT == 8000
\* the value the comment on IP_ADDRESS tells the operator to put in its place
WildcardAddress == "0.0.0.0"
Addresses == {IP_ADDRESS, WildcardAddress}

----------------------------------------------------------------------------
(* The file system the handler reads.  The working directory is /srv; the  *)
(* host has /etc/passwd outside it.  An absolute file name is the sequence *)
(* of its components.                                                      *)

Root == <<"srv">>

HostFiles == { <<<<"etc">>, "dir">>, <<<<"etc", "passwd">>, "file">>,
               <<Root, "dir">> }

\* contents of the working directory, one per FileSystems entry
FileSystems ==
  { {},
    { <<Root \o <<"etc">>, "dir">>,
      <<Root \o <<"etc", "passwd">>, "file">> },
    { <<Root \o <<"etc">>, "dir">>,
      <<Root \o <<"etc", "index.html">>, "file">>,
      <<Root \o <<"etc", "passwd">>, "file">>,
      <<Root \o <<"passwd">>, "unreadable">> },
    { <<Root \o <<"etc">>, "lockeddir">>,
      <<Root \o <<"passwd">>, "file">> } }

\* what the file name p is on the host with working-directory contents fs:
\* "dir", "lockeddir" (a directory the process may not list or search),
\* "file", "unreadable" (a file the process may not open), or "none"
Kind(fs, p) ==
  LET hits == { e \in fs \cup HostFiles : e[1] = p }
  IN IF hits = {} THEN "none" ELSE (CHOOSE e \in hits : TRUE)[2]

IsPrefix(s, t) == Len(s) <= Len(t) /\ SubSeq(t, 1, Len(s)) = s

----------------------------------------------------------------------------
(* Request paths *)

PathComps == {"", ".", "..", "%2e%2e", "etc", "passwd"}

Paths == UNION { [1..n -> PathComps] : n \in 1..MaxPathLen }

\* urllib.parse.unquote, on one component
Unquote(c) == IF c = "%2e%2e" THEN ".." ELSE c

\* the path starts with k slashes
StartsWithSlashes(p, k) == Len(p) >= k + 1 /\ \A i \in 1..k : p[i] = ""

EndsWithSlash(p) == Len(p) > 1 /\ p[Len(p)] = ""

RECURSIVE NormComps(_, _, _)
\* the loop of posixpath.normpath over comps, new_comps so far in acc
NormComps(comps, acc, initial) ==
  IF comps = <<>> THEN acc
  ELSE LET comp == Head(comps)
           rest == Tail(comps)
       IN IF comp \in {"", "."} THEN NormComps(rest, acc, initial)
          ELSE IF comp # ".."
                  \/ (initial = 0 /\ acc = <<>>)
                  \/ (acc # <<>> /\ acc[Len(acc)] = "..")
               THEN NormComps(rest, Append(acc, comp), initial)
               ELSE IF acc # <<>>
                    THEN NormComps(rest, SubSeq(acc, 1, Len(acc) - 1), initial)
                    ELSE NormComps(rest, acc, initial)

\* posixpath.normpath
normpath(p) ==
  IF p = <<"">> THEN <<".">>
  ELSE LET initial == IF StartsWithSlashes(p, 2) /\ ~StartsWithSlashes(p, 3) THEN 2
                      ELSE IF StartsWithSlashes(p, 1) THEN 1 ELSE 0
           new_comps == NormComps(p, <<>>, initial)
       IN  IF initial = 0
           THEN (IF new_comps = <<>> THEN <<".">> ELSE new_comps)
           ELSE [i \in 1..initial |-> ""] \o
                (IF new_comps = <<>> THEN <<"">> ELSE new_comps)

RECURSIVE LStripSlashes(_)
LStripSlashes(p) ==
  IF Len(p) > 1 /\ p[1] = "" THEN LStripSlashes(Tail(p)) ELSE p

\* BaseHTTPRequestHandler.parse_request, the gh-87389 step: a path that
\* starts with '//' is reduced to a single leading '/'
ReduceLeadingSlashes(p) ==
  IF StartsWithSlashes(p, 2) THEN <<"">> \o LStripSlashes(p) ELSE p

RECURSIVE Walk(_, _, _)
\* the file name reached from cur by following comps as the file system
\* does, '..' never climbing above the first floor components
Walk(comps, cur, floor) ==
  IF comps = <<>> THEN cur
  ELSE LET comp == Unquote(Head(comps))
       IN IF comp \in {"", "."} THEN Walk(Tail(comps), cur, floor)
          ELSE IF comp = ".."
               THEN Walk(Tail(comps),
                         IF Len(cur) > floor THEN SubSeq(cur, 1, Len(cur) - 1) ELSE cur,
                         floor)
               ELSE Walk(Tail(comps), Append(cur, comp), floor)

\* what the request path names when it is resolved against the working
\* directory with '..' free to leave it
Resolve(p) == Walk(p, Root, 0)
\* what it names when the working directory is the top: '..' stops there
ResolveUnderRoot(p) == Walk(p, Root, Len(Root))

\* the request path is joined to the working directory unnormalised and
\* unfiltered
translate_path_unfiltered(p) == [name |-> Resolve(p), slash |-> EndsWithSlash(p)]

IsSimpleName(word) == word \notin {".", ".."}

\* SimpleHTTPRequestHandler.translate_path: the local file name and whether
\* it carries a trailing '/'
translate_path(p) ==
  LET trailing_slash == EndsWithSlash(p)
      unquoted == [i \in 1..Len(p) |-> Unquote(p[i])]
      words == SelectSeq(normpath(unquoted), LAMBDA w : w # "")
  IN  [name  |-> Root \o SelectSeq(words, IsSimpleName),
       slash |-> trailing_slash]

----------------------------------------------------------------------------
(* Requests.  A request is its request line (the number of whitespace-      *)
(* separated words on it, the command, the path, the version word, whether *)
(* the line exceeds 65536 bytes) and what its headers amount to.           *)

Commands == {"GET", "HEAD", "POST"}
Versions == {"HTTP/1.0", "HTTP/1.1", "HTTP/2.0", "HTTP/1.x"}
\* "plain": no conditional header; "ims_fresh": If-Modified-Since not earlier
\* than the file's modification time and no If-None-Match; "ims_stale":
\* If-Modified-Since earlier than it; "toobig": a header line over the limit
\* of http.client, or more headers than it allows
Headers == {"plain", "ims_fresh", "ims_stale", "toobig"}

Request(n, c, p, v, l, h) ==
  [nwords |-> n, command |-> c, path |-> p, version |-> v, long |-> l, hdr |-> h]

\* paths used with every shape of request line
ProbePaths == { <<"", "">>, <<"", "etc">>, <<"", "etc", "">>, <<"", "passwd">> }

\* the requests the handler is examined on: every path with a plain GET,
\* and every shape of request line and headers with a few paths
Requests ==
  { Request(3, "GET", p, "HTTP/1.1", FALSE, "plain") : p \in Paths }
  \cup { Request(3, c, p, v, FALSE, h) :
           c \in Commands, p \in ProbePaths, v \in Versions, h \in Headers }
  \cup { Request(n, c, <<"", "etc", "">>, v, l, "plain") :
           n \in 0..4, c \in Commands, v \in Versions, l \in BOOLEAN }

\* the requests clients send while the whole server is examined
ClientRequests ==
  { Request(3, "GET", p, "HTTP/1.1", FALSE, "plain") :
      p \in ProbePaths \cup { <<"", "..", "etc", "passwd">> } }
  \cup { Request(0, "GET", <<"", "">>, "HTTP/1.1", FALSE, "plain"),
         Request(1, "GET", <<"", "">>, "HTTP/1.1", FALSE, "plain"),
         Request(3, "GET", <<"", "">>, "HTTP/1.x", FALSE, "plain") }

\* the (major, minor) of a version word, <<>> when it is not HTTP/<d>.<d>
VersionNumber(v) ==
  CASE v = "HTTP/1.0" -> <<1, 0>>
    [] v = "HTTP/1.1" -> <<1, 1>>
    [] v = "HTTP/2.0" -> <<2, 0>>
    [] OTHER -> <<>>

NoBody == [kind |-> "none", of |-> <<>>]
ErrorPage == [kind |-> "error", of |-> <<>>]
FileBody(name) == [kind |-> "file", of |-> name]
ListingBody(name) == [kind |-> "listing", of |-> name]

\* a response: the status code the handler answers with, the body it writes,
\* and whether a status line and headers precede the body.  send_response_only
\* and send_header write nothing while request_version is 'HTTP/0.9'.
Response(status, body, request_version) ==
  [status |-> status, body |-> body, headers |-> request_version # "HTTP/0.9"]
\* nothing is written at all
NoResponse == [status |-> 0, body |-> NoBody, headers |-> FALSE]

default_request_version == "HTTP/0.9"

\* self.request_version once parse_request has returned True
request_version(req) ==
  IF req.nwords = 3 THEN req.version ELSE default_request_version

\* BaseHTTPRequestHandler.send_error after parse_request set self.command:
\* a HEAD request gets no body
send_error(req, status) ==
  Response(status, IF req.command = "HEAD" THEN NoBody ELSE ErrorPage,
           request_version(req))

\* BaseHTTPRequestHandler.parse_request: ok, or the error response it sent.
\* Its errors on the request line are sent while self.command is None and
\* self.request_version is still the default.
parse_request(req) ==
  LET vn == VersionNumber(req.version)
      reject(status) ==
        [ok |-> FALSE, resp |-> Response(status, ErrorPage, default_request_version)]
  IN
  IF req.nwords = 0 THEN [ok |-> FALSE, resp |-> NoResponse]
  ELSE IF req.nwords >= 3 /\ vn = <<>> THEN reject(400)
  ELSE IF req.nwords >= 3 /\ vn[1] >= 2 THEN reject(505)
  ELSE IF ~(req.nwords \in 2..3) THEN reject(400)
  ELSE IF req.nwords = 2 /\ req.command # "GET" THEN reject(400)
  ELSE IF req.hdr = "toobig" THEN [ok |-> FALSE, resp |-> send_error(req, 431)]
  ELSE [ok |-> TRUE, resp |-> NoResponse]

\* os.path.isdir
isdir(fs, name) == Kind(fs, name) \in {"dir", "lockeddir"}
\* os.path.isfile
isfile(fs, name) ==
  /\ Kind(fs, name) \in {"file", "unreadable"}
  /\ Kind(fs, SubSeq(name, 1, Len(name) - 1)) = "dir"

\* SimpleHTTPRequestHandler.list_directory: os.listdir fails on a directory
\* the process may not read
list_directory(fs, req, name) ==
  IF Kind(fs, name) = "lockeddir" THEN send_error(req, 404)
  ELSE Response(200, ListingBody(name), request_version(req))

\* a failed open is not answered with 404
send_file_unchecked(fs, req, path) ==
  Response(200, FileBody(path.name), request_version(req))

\* the tail of SimpleHTTPRequestHandler.send_head, from guess_type on:
\* path is the file to open
send_file(fs, req, path) ==
  IF path.slash THEN send_error(req, 404)
  ELSE IF Kind(fs, path.name) # "file" THEN send_error(req, 404)
  ELSE IF req.hdr = "ims_fresh" THEN Response(304, NoBody, request_version(req))
  ELSE Response(200, FileBody(path.name), request_version(req))

IndexNames == <<"index.html", "index.htm">>

\* SimpleHTTPRequestHandler.send_head
send_head(fs, req) ==
  LET rawpath == ReduceLeadingSlashes(req.path)
      path == translate_path(rawpath)
      found == { i \in 1..Len(IndexNames) :
                   isfile(fs, path.name \o <<IndexNames[i]>>) }
  IN
  IF isdir(fs, path.name)
  THEN IF ~EndsWithSlash(rawpath)
       THEN Response(301, NoBody, request_version(req))
       ELSE IF found # {}
            THEN LET first == CHOOSE i \in found : \A j \in found : i <= j
                 IN send_file(fs, req, [name  |-> path.name \o <<IndexNames[first]>>,
                                        slash |-> FALSE])
            ELSE list_directory(fs, req, path.name)
  ELSE send_file(fs, req, path)

\* do_GET copies the file send_head opened; do_HEAD closes it unsent
do_method(fs, req) ==
  LET head == send_head(fs, req)
  IN IF req.command = "HEAD" THEN [head EXCEPT !.body = NoBody] ELSE head

\* BaseHTTPRequestHandler.handle_one_request, once a request line was read
handle_one_request(fs, req) ==
  IF req.long THEN Response(414, ErrorPage, "")
  ELSE LET parsed == parse_request(req)
       IN IF ~parsed.ok THEN parsed.resp
          ELSE IF req.command \notin {"GET", "HEAD"} THEN send_error(req, 501)
          ELSE do_method(fs, req)

----------------------------------------------------------------------------
(* The process and its environment *)

CertStates == {"ok", "missing", "unreadable", "malformed", "mismatch"}

\* what socket.bind((address, PORT)) does on the host: the placeholder is
\* a host name the resolver is asked for, the wildcard is not
BindOutcomes(address) ==
  {"ok", "EADDRINUSE", "EACCES"} \cup
  (IF address = WildcardAddress THEN {} ELSE {"gaierror"})

Environments ==
  { e \in [address : Addresses, bind : {"ok", "EADDRINUSE", "EACCES", "gaierror"},
           cert : CertStates, fs : FileSystems] :
      e.bind \in BindOutcomes(e.address) }

Conns == 1..MaxConns

\* st: "idle" (not yet connected), "queued" (in the listen backlog),
\*     "handshake", "request" (accepted, handler waiting for the request
\*     line), "finished" (handler returned), "closed", "dropped" (handshake
\*     failed), "reset" (the process went away under it)
\* early: it connected before the listening socket was wrapped
\* hs: "none", "ok", "failed";  peer: "open", "gone"
\* read: the server read request bytes from it;  status: what it was answered
NewConn == [st |-> "idle", early |-> FALSE, hs |-> "none", peer |-> "open",
            read |-> FALSE, status |-> 0]

NoXchg == [req |-> Request(0, "GET", <<"">>, "HTTP/1.0", FALSE, "plain"),
           resp |-> NoResponse, of |-> 0]

Active == {"handshake", "request", "finished"}

Init ==
  /\ env \in Environments
  /\ pc = "bind"
  /\ exitStatus = 0
  /\ stderr = <<>>
  /\ stdout = <<>>
  /\ port = "closed"
  /\ sockKind = "none"
  /\ ctxLoaded = FALSE
  /\ bindCalls = 0
  /\ backlog = <<>>
  /\ conn = [c \in Conns |-> NewConn]
  /\ handling = 0
  /\ xchg = NoXchg

\* the serving message moved up to right after the bind
SuccessorPrintEarly(stmt) ==
  CASE stmt = "bind" -> "print"
    [] stmt = "print" -> "load_cert"
    [] stmt = "load_cert" -> "wrap"
    [] stmt = "wrap" -> "serve"

\* the order of the script's statements
Successor(stmt) ==
  CASE stmt = "bind" -> "load_cert"
    [] stmt = "load_cert" -> "wrap"
    [] stmt = "wrap" -> "print"
    [] stmt = "print" -> "serve"

\* an exception reaches the top of the script: the interpreter prints the
\* traceback and exits with status 1; the kernel closes the process's
\* sockets and resets what waited in the backlog
Die(err) ==
  /\ pc' = "exited"
  /\ exitStatus' = 1
  /\ stderr' = Append(stderr, err)
  /\ port' = "closed"
  /\ sockKind' = "none"
  /\ backlog' = <<>>
  /\ conn' = [c \in Conns |->
                IF conn[c].st \in Active \cup {"queued"}
                THEN [conn[c] EXCEPT !.st = "reset"] ELSE conn[c]]
  /\ handling' = 0
  /\ xchg' = NoXchg
  /\ UNCHANGED <<env, stdout, ctxLoaded>>

\* a failed bind is tried again instead of being left to propagate
OnBindErrorRetry(err) ==
  /\ bindCalls < 3
  /\ bindCalls' = bindCalls + 1
  /\ stderr' = Append(stderr, err)
  /\ UNCHANGED <<env, pc, exitStatus, stdout, port, sockKind, ctxLoaded, backlog,
                 conn, handling, xchg>>

\* TCPServer.__init__: server_bind or server_activate raised; server_close,
\* then the exception propagates
OnBindError(err) ==
  /\ Die(err)
  /\ bindCalls' = bindCalls + 1

\* line 12: http.server.HTTPServer((IP_ADDRESS, PORT), handler) binds and
\* listens
Bind ==
  /\ pc = "bind"
  /\ IF env.bind = "ok"
     THEN /\ pc' = Successor("bind")
          /\ port' = "listening"
          /\ sockKind' = "plain"
          /\ bindCalls' = bindCalls + 1
          /\ UNCHANGED <<env, exitStatus, stderr, stdout, ctxLoaded, backlog,
                         conn, handling, xchg>>
     ELSE OnBindError(env.bind)

\* only the presence of the two files is checked
load_cert_chain_unchecked(cert) == cert \notin {"missing", "unreadable"}

\* SSLContext.load_cert_chain succeeds
load_cert_chain_ok(cert) == cert = "ok"

\* lines 15-16: ssl.SSLContext(...); context.load_cert_chain(...)
LoadCert ==
  /\ pc = "load_cert"
  /\ IF load_cert_chain_ok(env.cert)
     THEN /\ pc' = Successor("load_cert")
          /\ ctxLoaded' = TRUE
          /\ UNCHANGED <<env, exitStatus, stderr, stdout, port, sockKind,
                         bindCalls, backlog, conn, handling, xchg>>
     ELSE Die(env.cert) /\ UNCHANGED bindCalls

\* the wrapped socket is not assigned back to httpd.socket
UnwrappedSocketKind == "plain"

\* what httpd.socket is after line 19
WrappedSocketKind == "tls"

\* line 19: httpd.socket = context.wrap_socket(httpd.socket, server_side=True)
WrapSocket ==
  /\ pc = "wrap"
  /\ pc' = Successor("wrap")
  /\ sockKind' = WrappedSocketKind
  /\ UNCHANGED <<env, exitStatus, stderr, stdout, port, ctxLoaded, bindCalls,
                 backlog, conn, handling, xchg>>

ServingMessage == <<"Serving on https://", env.address, ":", PORT>>

\* line 21: print(f"Serving on https://{IP_ADDRESS}:{PORT}")
PrintServing ==
  /\ pc = "print"
  /\ pc' = Successor("print")
  /\ stdout' = Append(stdout, ServingMessage)
  /\ UNCHANGED <<env, exitStatus, stderr, port, sockKind, ctxLoaded, bindCalls,
                 backlog, conn, handling, xchg>>

\* a client's TCP connection completes against the listening port: the
\* kernel queues it whether or not the process is in accept()
ClientConnect(c) ==
  /\ port = "listening"
  /\ conn[c].st = "idle"
  /\ (c > 1 => conn[c - 1].st # "idle")
  /\ conn' = [conn EXCEPT ![c].st = "queued", ![c].early = (sockKind # "tls")]
  /\ backlog' = Append(backlog, c)
  /\ UNCHANGED <<env, pc, exitStatus, stderr, stdout, port, sockKind, ctxLoaded,
                 bindCalls, handling, xchg>>

\* ThreadingMixIn.process_request: the handler runs on a thread of its own
\* and the serving thread goes back to its loop
process_request_threaded(c) == 0

\* BaseServer.process_request calls finish_request and shutdown_request on
\* the serving thread: the connection the loop is on once get_request
\* returned c
process_request(c) == c

\* line 22, serve_forever -> _handle_request_noblock -> get_request:
\* socket.accept() takes the head of the backlog; SSLSocket.accept() then
\* starts the server-side handshake on it, a plain socket.accept() does not
GetRequest ==
  /\ pc = "serve"
  /\ handling = 0
  /\ backlog # <<>>
  /\ LET c == Head(backlog)
     IN IF sockKind = "tls"
        THEN /\ conn' = [conn EXCEPT ![c].st = "handshake"]
             /\ handling' = c
        ELSE /\ conn' = [conn EXCEPT ![c].st = "request"]
             /\ handling' = process_request(c)
  /\ backlog' = Tail(backlog)
  /\ UNCHANGED <<env, pc, exitStatus, stderr, stdout, port, sockKind, ctxLoaded,
                 bindCalls, xchg>>

\* do_handshake() returns inside SSLSocket.accept(); get_request returns
\* and process_request starts the handler
HandshakeOk(c) ==
  /\ pc = "serve"
  /\ conn[c].st = "handshake"
  /\ conn[c].peer = "open"
  /\ conn' = [conn EXCEPT ![c].st = "request", ![c].hs = "ok"]
  /\ handling' = process_request(c)
  /\ UNCHANGED <<env, pc, exitStatus, stderr, stdout, port, sockKind, ctxLoaded,
                 bindCalls, backlog, xchg>>

\* the OSError of a failed handshake is not caught and ends the process
OnGetRequestOSErrorPropagates(c) ==
  /\ Die("ssl.SSLError")
  /\ UNCHANGED bindCalls

\* _handle_request_noblock: get_request raised OSError (ssl.SSLError is
\* one); "except OSError: return"
OnGetRequestOSError(c) ==
  /\ conn' = [conn EXCEPT ![c].st = "dropped", ![c].hs = "failed"]
  /\ handling' = 0
  /\ UNCHANGED <<env, pc, exitStatus, stderr, stdout, port, sockKind, ctxLoaded,
                 bindCalls, backlog, xchg>>

\* the client fails or aborts the TLS negotiation
HandshakeFail(c) ==
  /\ pc = "serve"
  /\ conn[c].st = "handshake"
  /\ OnGetRequestOSError(c)

\* the client closes its end having sent no request bytes
ClientDisconnect(c) ==
  /\ conn[c].st = "request"
  /\ conn[c].peer = "open"
  /\ conn' = [conn EXCEPT ![c].peer = "gone"]
  /\ UNCHANGED <<env, pc, exitStatus, stderr, stdout, port, sockKind, ctxLoaded,
                 bindCalls, backlog, handling, xchg>>

\* handle_one_request: the client sent one of reqs; the handler reads it
\* and answers
HandleOneRequest(c, reqs) ==
  /\ pc = "serve"
  /\ conn[c].st = "request"
  /\ conn[c].peer = "open"
  /\ \E req \in reqs :
       LET resp == handle_one_request(env.fs, req)
       IN /\ conn' = [conn EXCEPT ![c].st = "finished", ![c].read = TRUE,
                                  ![c].status = resp.status]
          /\ xchg' = [req |-> req, resp |-> resp, of |-> c]
  /\ UNCHANGED <<env, pc, exitStatus, stderr, stdout, port, sockKind, ctxLoaded,
                 bindCalls, backlog, handling>>

\* the handler keeps waiting for a request line on the closed stream
HandleEOFBlocked(c) ==
  /\ pc = "serve"
  /\ conn[c].st = "request"
  /\ conn[c].peer = "gone"
  /\ UNCHANGED vars

\* handle_one_request: readline returns b'' at end of stream;
\* "if not self.raw_requestline: self.close_connection = True; return"
HandleEOF(c) ==
  /\ pc = "serve"
  /\ conn[c].st = "request"
  /\ conn[c].peer = "gone"
  /\ conn' = [conn EXCEPT ![c].st = "finished"]
  /\ UNCHANGED <<env, pc, exitStatus, stderr, stdout, port, sockKind, ctxLoaded,
                 bindCalls, backlog, handling, xchg>>

\* _handle_request_noblock: process_request raised an Exception (the peer
\* reset the connection under the handler); handle_error prints it and
\* shutdown_request closes the connection
HandlerException(c) ==
  /\ pc = "serve"
  /\ conn[c].st = "request"
  /\ conn' = [conn EXCEPT ![c].st = "closed", ![c].peer = "gone"]
  /\ stderr' = Append(stderr, "Exception occurred during processing of request")
  /\ handling' = IF handling = c THEN 0 ELSE handling
  /\ UNCHANGED <<env, pc, exitStatus, stdout, port, sockKind, ctxLoaded,
                 bindCalls, backlog, xchg>>

\* process_request: finish_request returned; shutdown_request closes the
\* connection and _handle_request_noblock returns to the serve_forever loop
ShutdownRequest(c) ==
  /\ pc = "serve"
  /\ conn[c].st = "finished"
  /\ conn' = [conn EXCEPT ![c].st = "closed"]
  /\ handling' = IF handling = c THEN 0 ELSE handling
  /\ xchg' = NoXchg
  /\ UNCHANGED <<env, pc, exitStatus, stderr, stdout, port, sockKind, ctxLoaded,
                 bindCalls, backlog>>

Next ==
  \/ Bind
  \/ LoadCert
  \/ WrapSocket
  \/ PrintServing
  \/ GetRequest
  \/ \E c \in Conns : ClientConnect(c)
  \/ \E c \in Conns : HandshakeOk(c)
  \/ \E c \in Conns : HandshakeFail(c)
  \/ \E c \in Conns : ClientDisconnect(c)
  \/ \E c \in Conns : HandleOneRequest(c, ClientRequests)
  \/ \E c \in Conns : HandleEOF(c)
  \/ \E c \in Conns : HandlerException(c)
  \/ \E c \in Conns : ShutdownRequest(c)

Spec == Init /\ [][Next]_vars

\* the serving thread runs whenever it is not blocked in a read: the steps
\* it takes without the client doing anything more
ServerStep == \E c \in Conns : HandleEOF(c) \/ ShutdownRequest(c)

FairSpec == Spec /\ WF_vars(ServerStep)

\* The request handler on its own: the server has started, connection 1 was
\* accepted and its handshake succeeded, and the handler is about to read
\* the request.
HandlerInit ==
  /\ env \in { e \in Environments : e.bind = "ok" /\ e.cert = "ok" }
  /\ pc = "serve"
  /\ exitStatus = 0
  /\ stderr = <<>>
  /\ stdout = <<ServingMessage>>
  /\ port = "listening"
  /\ sockKind = "tls"
  /\ ctxLoaded = TRUE
  /\ bindCalls = 1
  /\ backlog = <<>>
  /\ conn = [c \in Conns |->
               IF c = 1 THEN [NewConn EXCEPT !.st = "request", !.hs = "ok"]
               ELSE NewConn]
  /\ handling = 1
  /\ xchg = NoXchg

HandlerNext ==
  \/ HandleOneRequest(1, Requests)
  \/ ShutdownRequest(1)

HandlerSpec == HandlerInit /\ [][HandlerNext]_vars

----------------------------------------------------------------------------
(* Properties *)

Accepted(c) == conn[c].st \in {"handshake", "request", "finished", "closed", "dropped"}

\* the request line is malformed: blank, one word, more than three words,
\* a version word that is not HTTP/<digits>.<digits>, or two words with a
\* command other than GET
Malformed(req) ==
  \/ req.nwords \notin 2..3
  \/ req.nwords = 3 /\ VersionNumber(req.version) = <<>>
  \/ req.nwords = 2 /\ req.command # "GET"

\* a complete, supported, unconditional GET
PlainGet(req) ==
  /\ req.nwords = 3
  /\ req.command = "GET"
  /\ VersionNumber(req.version) # <<>>
  /\ VersionNumber(req.version)[1] < 2
  /\ ~req.long
  /\ req.hdr = "plain"

EscapesRoot(p) == ~IsPrefix(Root, Resolve(p))

BodyOutsideRoot(body) ==
  body.kind \in {"file", "listing"} /\ ~IsPrefix(Root, body.of)

\* C1: request bytes are read and a response is sent only on a connection
\* whose TLS handshake succeeded, also when the connection was queued before
\* the listening socket was wrapped; a connection whose handshake failed is
\* never read from nor answered.
C1_HandshakeBeforeRead ==
  \A c \in Conns :
    /\ (conn[c].read \/ conn[c].status # 0 \/ xchg.of = c
          \/ conn[c].st \in {"request", "finished", "closed"})
         => conn[c].hs = "ok"
    /\ conn[c].hs # "ok" => ~conn[c].read /\ conn[c].status = 0

C1_Witness ==
  \E c \in Conns :
    conn[c].early /\ conn[c].hs = "ok" /\ conn[c].read /\ conn[c].status = 200

\* C2: when loading the certificate chain or key fails, the process ends
\* with a non-zero status and a diagnostic, no connection is ever accepted,
\* the serving message is not printed, and no port is left listening.
C2_CertFailureIsFatal ==
  (env.bind = "ok" /\ env.cert # "ok") =>
    /\ pc \in {"bind", "load_cert", "exited"}
    /\ stdout = <<>>
    /\ \A c \in Conns : ~Accepted(c)
    /\ pc = "exited" =>
         exitStatus # 0 /\ port = "closed" /\ stderr = <<env.cert>>

C2_Witness ==
  /\ env.bind = "ok"
  /\ env.cert = "mismatch"
  /\ pc = "exited"
  /\ \E c \in Conns : conn[c].st = "reset"

\* C3: when binding the listening socket fails, the process ends with a
\* non-zero status and the bind error as diagnostic, bind was called once,
\* and no later startup step is reached.
C3_BindFailureIsFatal ==
  env.bind # "ok" =>
    /\ pc \in {"bind", "exited"}
    /\ bindCalls <= 1
    /\ ~ctxLoaded /\ sockKind = "none" /\ port = "closed" /\ stdout = <<>>
    /\ \A c \in Conns : conn[c].st = "idle"
    /\ pc = "exited" =>
         exitStatus # 0 /\ stderr = <<env.bind>> /\ bindCalls = 1

C3_Witness == env.bind = "EADDRINUSE" /\ pc = "exited" /\ exitStatus = 1

\* C4: once the serve loop is entered the process never leaves it: a failed
\* handshake drops the connection and frees the loop, a malformed request
\* line or a missing or unreadable file is answered with 400 or 404 (or, for
\* a malformed line, dropped unanswered), and the loop is only ever held by
\* a connection still being handled.
C4_StepOk ==
  pc = "serve" =>
    /\ pc' = "serve" /\ exitStatus' = 0 /\ port' = "listening"
    /\ \A c \in Conns :
         /\ (conn[c].st = "handshake" /\ conn'[c].hs = "failed")
              => conn'[c].st = "dropped" /\ handling' = 0
         /\ (xchg.of # c /\ xchg'.of = c /\ Malformed(xchg'.req))
              => xchg'.resp.status \in {0, 400} /\ conn'[c].st = "finished"
         /\ (xchg.of # c /\ xchg'.of = c /\ PlainGet(xchg'.req)
               /\ Kind(env.fs, ResolveUnderRoot(xchg'.req.path)) \in {"none", "unreadable"})
              => xchg'.resp.status = 404 /\ conn'[c].st = "finished"
         /\ (conn[c].st = "finished" /\ conn'[c].st # "finished")
              => conn'[c].st = "closed" /\ handling' = 0

C4_NeverHalts ==
  /\ [][C4_StepOk]_vars
  /\ [](pc = "serve" /\ handling # 0 => conn[handling].st \in Active)

C4_Witness ==
  /\ pc = "serve"
  /\ handling = 0
  /\ \E c, d \in Conns :
       /\ c < d
       /\ conn[c].st = "dropped" /\ conn[c].hs = "failed"
       /\ conn[d].st = "closed" /\ conn[d].status = 404

\* C5: at most one connection is in its handshake or being handled, it is
\* the one the serve loop is on, and no other is taken from the backlog
\* until it is closed.
C5_Serial ==
  /\ Cardinality({ c \in Conns : conn[c].st \in Active }) <= 1
  /\ \A c \in Conns : conn[c].st \in Active => handling = c
  /\ handling # 0 => conn[handling].st \in Active

C5_Witness ==
  \E c, d \in Conns :
    conn[c].st = "finished" /\ conn[d].st = "queued" /\ handling = c

C7_PlaceholderRejected ==
  env.address = IP_ADDRESS => bindCalls = 0 /\ pc # "serve"

IndexOf(fs, target) ==
  IF Kind(fs, target \o <<"index.html">>) \in {"file", "unreadable"}
  THEN target \o <<"index.html">>
  ELSE IF Kind(fs, target \o <<"index.htm">>) \in {"file", "unreadable"}
       THEN target \o <<"index.htm">>
       ELSE <<>>

C9_SilentClientCleanedUp ==
  \A c \in Conns :
    (conn[c].st = "request" /\ conn[c].hs = "ok" /\ conn[c].peer = "gone"
       /\ ~conn[c].read)
    ~> (conn[c].st = "closed" /\ handling # c /\ pc = "serve")

C9_Witness ==
  /\ stderr = <<>>
  /\ \E c, d \in Conns :
       /\ c < d
       /\ conn[c].st = "closed" /\ conn[c].hs = "ok" /\ conn[c].peer = "gone"
       /\ ~conn[c].read
       /\ conn[d].st = "closed" /\ conn[d].status = 200

\* C10: the serving message, with the configured address and port, is
\* printed once, after the bind, the certificate load and the wrap have all
\* succeeded in that order and before any connection is accepted, and never
\* on a run whose startup fails.
C10_MessageAfterStartup ==
  /\ Len(stdout) <= 1
  /\ ctxLoaded => bindCalls = 1 /\ env.bind = "ok"
  /\ sockKind = "tls" => ctxLoaded /\ env.cert = "ok"
  /\ stdout # <<>> =>
       /\ stdout[1][2] = env.address /\ stdout[1][4] = PORT
       /\ pc = "serve" /\ sockKind = "tls" /\ port = "listening"
  /\ pc = "serve" => Len(stdout) = 1
  /\ (\E c \in Conns : Accepted(c)) => stdout # <<>>
  /\ pc = "exited" => stdout = <<>> /\ exitStatus # 0

C10_Witness ==
  /\ pc = "serve"
  /\ stdout = <<ServingMessage>>
  /\ \E c \in Conns : conn[c].early /\ conn[c].status = 200

====
